---- MODULE Spec2Model ----
(***************************************************************************)
(* Model of exercises/08_finale: Matcher::new (the pattern compiler) and   *)
(* Matcher::match_string (the matcher).                                    *)
(*                                                                         *)
(* A &str is a sequence of UTF-8 bytes.  The bytes of the model are the    *)
(* one-byte characters "a" "b" "." "(" ")" "|" and the two bytes "C3" "A9" *)
(* of the two-byte character U+00E9.  Offsets are 0-based byte offsets as  *)
(* in Rust; text.chars().enumerate() counts characters.                    *)
(***************************************************************************)
EXTENDS Integers, Sequences, FiniteSets, TLC

\* Bounds of the model.
MaxPatLen == 5
MaxStrLen == 2
\* Bounds of the model of two callers.
MaxSharedPatLen == 2
MaxSharedStrLen == 1

----------------------------------------------------------------------------
\* Strings

Lead == "C3"
Cont == "A9"
Delims == {".", "(", ")", "|"}
PatAlphabet == {<<"a">>, <<"b">>, <<Lead, Cont>>, <<".">>, <<"(">>, <<")">>, <<"|">>}
StrAlphabet == {<<"a">>, <<"b">>, <<Lead, Cont>>}

RECURSIVE Concat(_)
Concat(ss) == IF ss = <<>> THEN <<>> ELSE Head(ss) \o Concat(Tail(ss))

\* Every valid UTF-8 string of at most n characters over the alphabet A.
Strings(A, n) == UNION {{Concat(cs) : cs \in [1..k -> A]} : k \in 0..n}

\* str::chars: one item per character; a character is named by its first
\* byte, its continuation bytes are consumed with it.
Chars(s) == SelectSeq(s, LAMBDA b : b # Cont)

\* str::is_char_boundary
IsCharBoundary(s, k) ==
    \/ k = 0
    \/ k = Len(s)
    \/ k < Len(s) /\ s[k + 1] # Cont

\* &s[a..b] panics unless a <= b <= len and both are character boundaries.
SliceOk(s, a, b) ==
    /\ a <= b
    /\ b <= Len(s)
    /\ IsCharBoundary(s, a)
    /\ IsCharBoundary(s, b)

Slice(s, a, b) == SubSeq(s, a + 1, b)

\* str::starts_with
StartsWith(s, t) == Len(t) <= Len(s) /\ SubSeq(s, 1, Len(t)) = t

----------------------------------------------------------------------------
\* MatcherToken

RawText(t) == [kind |-> "RawText", text |-> t, options |-> <<>>]
OneOfText(opts) == [kind |-> "OneOfText", text |-> <<>>, options |-> opts]
WildCard == [kind |-> "WildCard", text |-> <<>>, options |-> <<>>]

\* Matcher
Matcher(t, toks, n) == [text |-> t, tokens |-> toks, most_tokens_matched |-> n]

----------------------------------------------------------------------------
VARIABLES
    text,             \* the pattern handed to Matcher::new
    pc,               \* "new": scanning; "None" / "Some": what new returned;
                      \* "panic": new panicked
    i,                \* character index of the scan
    tokens,           \* locals of new
    in_text_block,
    text_start,
    in_or_block,
    or_options,
    compiled,         \* the Matcher as new returned it
    run,              \* the Matcher and the activation of match_string on it
    fresh,            \* the same call made on a Matcher just returned by new
    exclusive,        \* whether a call holds the Matcher exclusively (&mut self)
    owner,            \* the caller holding the Matcher, 0 when it is free
    most_tokens_matched,  \* the counter of the Matcher two callers share
    threads           \* the activations of match_string of the two callers

vars == <<text, pc, i, tokens, in_text_block, text_start, in_or_block,
          or_options, compiled, run, fresh,
          exclusive, owner, most_tokens_matched, threads>>

\* The state of two callers sharing one Matcher.
shared == <<exclusive, owner, most_tokens_matched, threads>>

scan_locals == <<i, tokens, in_text_block, text_start, in_or_block, or_options>>

\* An activation of match_string: self, the argument, the locals, where the
\* call stands (at) and the line it returned or panicked at.  entry is
\* self.most_tokens_matched as the call found it.
Activation(m) ==
    [self |-> m, string |-> <<>>, token |-> 0, string_pointer |-> 0,
     matches |-> <<>>, at |-> "idle", line |-> 0, entry |-> 0]

NoMatcher == Matcher(<<>>, <<>>, 0)

Threads == {1, 2}

\* A caller: its activation a, whether its "+= 1" is still to be done (pend)
\* and the counter as it stood when its call returned (seen).
Caller == [a |-> Activation(NoMatcher), pend |-> FALSE, seen |-> 0]

Init ==
    /\ exclusive = TRUE
    /\ owner = 0
    /\ most_tokens_matched = 0
    /\ threads = [t \in Threads |-> Caller]
    /\ text \in Strings(PatAlphabet, MaxPatLen)
    /\ pc = "new"
    /\ i = 0
    /\ tokens = <<>>
    /\ in_text_block = FALSE
    /\ text_start = 0
    /\ in_or_block = FALSE
    /\ or_options = <<>>
    /\ compiled = NoMatcher
    /\ run = Activation(NoMatcher)
    /\ fresh = Activation(NoMatcher)

----------------------------------------------------------------------------
\* Matcher::new

\* &text[text_start..i]
TextRunAfterStart(t, start, end) == Slice(t, start + 1, end)
TextRun(t, start, end) == Slice(t, start, end)

Scanning(c) ==
    /\ pc = "new"
    /\ i < Len(Chars(text))
    /\ Chars(text)[i + 1] = c

Panicked ==
    /\ pc' = "panic"
    /\ UNCHANGED <<shared, text, scan_locals, compiled, run, fresh>>

ReturnedNone ==
    /\ pc' = "None"
    /\ UNCHANGED <<shared, text, scan_locals, compiled, run, fresh>>

\* c == '.'
ScanDot ==
    /\ Scanning(".")
    /\ IF in_text_block /\ ~SliceOk(text, text_start, i)
       THEN Panicked
       ELSE /\ tokens' = IF in_text_block
                         THEN tokens \o <<RawText(TextRun(text, text_start, i)), WildCard>>
                         ELSE Append(tokens, WildCard)
            /\ in_text_block' = FALSE
            /\ i' = i + 1
            /\ UNCHANGED <<shared, text, pc, text_start, in_or_block, or_options,
                           compiled, run, fresh>>

\* c == '('
ScanOpen ==
    /\ Scanning("(")
    /\ IF in_or_block
       THEN ReturnedNone
       ELSE IF in_text_block /\ ~SliceOk(text, text_start, i)
       THEN Panicked
       ELSE /\ tokens' = IF in_text_block
                         THEN Append(tokens, RawText(TextRun(text, text_start, i)))
                         ELSE tokens
            /\ in_text_block' = FALSE
            /\ in_or_block' = TRUE
            /\ i' = i + 1
            /\ UNCHANGED <<shared, text, pc, text_start, or_options, compiled, run, fresh>>

\* c == ')'
ScanClose ==
    /\ Scanning(")")
    /\ IF ~in_or_block
       THEN ReturnedNone
       ELSE IF in_text_block /\ ~SliceOk(text, text_start, i)
       THEN Panicked
       ELSE /\ tokens' = Append(tokens, OneOfText(
                             IF in_text_block
                             THEN Append(or_options, TextRun(text, text_start, i))
                             ELSE or_options))
            /\ in_or_block' = FALSE
            /\ in_text_block' = FALSE
            /\ or_options' = <<>>
            /\ i' = i + 1
            /\ UNCHANGED <<shared, text, pc, text_start, compiled, run, fresh>>

\* c == '|'
ScanBar ==
    /\ Scanning("|")
    /\ IF ~in_or_block \/ ~in_text_block
       THEN ReturnedNone
       ELSE IF ~SliceOk(text, text_start, i)
       THEN Panicked
       ELSE /\ or_options' = Append(or_options, TextRun(text, text_start, i))
            /\ in_text_block' = FALSE
            /\ i' = i + 1
            /\ UNCHANGED <<shared, text, pc, tokens, text_start, in_or_block,
                           compiled, run, fresh>>

\* any other character
ScanOther ==
    /\ pc = "new"
    /\ i < Len(Chars(text))
    /\ Chars(text)[i + 1] \notin Delims
    /\ in_text_block' = TRUE
    /\ text_start' = IF in_text_block THEN text_start ELSE i
    /\ i' = i + 1
    /\ UNCHANGED <<shared, text, pc, tokens, in_or_block, or_options, compiled, run, fresh>>

\* new as it would be with the text run open at the end of the pattern
\* closed like every other run.
ScanEndClosingRun ==
    /\ pc = "new"
    /\ i = Len(Chars(text))
    /\ IF in_or_block
       THEN ReturnedNone
       ELSE /\ pc' = "Some"
            /\ compiled' = Matcher(text,
                   IF in_text_block
                   THEN Append(tokens, RawText(Slice(text, text_start, Len(text))))
                   ELSE tokens, 0)
            /\ run' = Activation(compiled')
            /\ fresh' = Activation(compiled')
            /\ UNCHANGED <<shared, text, scan_locals>>

\* after the loop
ScanEnd ==
    /\ pc = "new"
    /\ i = Len(Chars(text))
    /\ IF in_or_block
       THEN ReturnedNone
       ELSE /\ pc' = "Some"
            /\ compiled' = Matcher(text, tokens, 0)
            /\ run' = Activation(Matcher(text, tokens, 0))
            /\ fresh' = Activation(Matcher(text, tokens, 0))
            /\ UNCHANGED <<shared, text, scan_locals>>

----------------------------------------------------------------------------
\* Matcher::match_string

\* self.most_tokens_matched = 0
ResetKept(r) == r
Reset(r) == [r EXCEPT !.self.most_tokens_matched = 0]

\* entry of the call: the reset, then the locals
Enter(r, s) ==
    [Reset(r) EXCEPT !.string = s, !.string_pointer = 0, !.matches = <<>>,
                     !.token = 1, !.at = "loop", !.line = 0,
                     !.entry = r.self.most_tokens_matched]

ReturnAt(r, l) == [r EXCEPT !.at = "return", !.line = l]
PanicAt(r, l) == [r EXCEPT !.at = "panic", !.line = l]

\* matches.push((&token, &string[string_pointer..new_string_pointer]));
\* self.most_tokens_matched += 1; string_pointer = new_string_pointer;
\* The token reference is the position of the token in self.tokens.
PushUncounted(r, n) ==
    [r EXCEPT !.matches = Append(@, [token |-> r.token,
                  str |-> Slice(r.string, r.string_pointer, r.string_pointer + n)]),
              !.string_pointer = @ + n]
PushConsuming(r, n) ==
    [r EXCEPT !.matches = Append(@, [token |-> r.token,
                  str |-> Slice(r.string, r.string_pointer, r.string_pointer + n)]),
              !.self.most_tokens_matched = @ + 1,
              !.self.text = r.string,
              !.string_pointer = @ + n]
PushFromStart(r, n) ==
    [r EXCEPT !.matches = Append(@, [token |-> r.token,
                  str |-> Slice(r.string, 0, n)]),
              !.self.most_tokens_matched = @ + 1,
              !.string_pointer = @ + n]
PushNoAdvance(r, n) ==
    [r EXCEPT !.matches = Append(@, [token |-> r.token,
                  str |-> Slice(r.string, r.string_pointer, r.string_pointer + n)]),
              !.self.most_tokens_matched = @ + 1]
Push(r, n) ==
    [r EXCEPT !.matches = Append(@, [token |-> r.token,
                  str |-> Slice(r.string, r.string_pointer, r.string_pointer + n)]),
              !.self.most_tokens_matched = @ + 1,
              !.string_pointer = @ + n]

\* if string_pointer > string.len() { return matches; }, else the next token
EndOfArm(r) ==
    IF r.string_pointer > Len(r.string)
    THEN ReturnAt(r, 134)
    ELSE [r EXCEPT !.token = @ + 1]

\* &string[string_pointer..]
Rest(r) == Slice(r.string, r.string_pointer, Len(r.string))
RestOk(r) == SliceOk(r.string, r.string_pointer, Len(r.string))

Token(r) == r.self.tokens[r.token]

\* MatcherToken::RawText(text) => ...
RawTextArm(r) ==
    IF ~RestOk(r)
    THEN PanicAt(r, 106)
    ELSE IF ~StartsWith(Rest(r), Token(r).text)
    THEN ReturnAt(r, 107)
    ELSE IF ~SliceOk(r.string, r.string_pointer, r.string_pointer + Len(Token(r).text))
    THEN PanicAt(r, 110)
    ELSE EndOfArm(Push(r, Len(Token(r).text)))

\* The option the loop of a try-every-option matcher would take.
RECURSIVE FirstMatching(_, _, _)
FirstMatching(options, rest, k) ==
    IF k > Len(options) THEN 0
    ELSE IF StartsWith(rest, options[k]) THEN k
    ELSE FirstMatching(options, rest, k + 1)

OneOfTextArmTryAll(r) ==
    IF Token(r).options = <<>>
    THEN EndOfArm(r)
    ELSE IF ~RestOk(r)
    THEN PanicAt(r, 116)
    ELSE IF FirstMatching(Token(r).options, Rest(r), 1) = 0
    THEN ReturnAt(r, 124)
    ELSE EndOfArm(Push(r, Len(Token(r).options[FirstMatching(Token(r).options, Rest(r), 1)])))

\* The arm with the return of line 124 placed after the for loop.
OneOfTextArmStopOnEmpty(r) ==
    IF Token(r).options = <<>>
    THEN ReturnAt(r, 124)
    ELSE IF ~RestOk(r)
    THEN PanicAt(r, 116)
    ELSE IF StartsWith(Rest(r), Token(r).options[1])
    THEN EndOfArm(Push(r, Len(Token(r).options[1])))
    ELSE ReturnAt(r, 124)

\* The WildCard arm with a slice that stops at the end of the string.
WildCardArmUnchecked(r) ==
    IF r.string_pointer >= Len(r.string)
    THEN EndOfArm([r EXCEPT !.matches = Append(@, [token |-> r.token, str |-> <<>>]),
                            !.self.most_tokens_matched = @ + 1,
                            !.string_pointer = @ + 1])
    ELSE IF ~SliceOk(r.string, r.string_pointer, r.string_pointer + 1)
    THEN PanicAt(r, 128)
    ELSE EndOfArm(Push(r, 1))

\* MatcherToken::OneOfText(options) => for text in options { ... }
\* The body of the for loop leaves the loop in its first iteration, by the
\* break of line 121 or by the return of line 124; with no option the body
\* never runs and control falls to line 133.
OneOfTextArm(r) ==
    IF Token(r).options = <<>>
    THEN EndOfArm(r)
    ELSE IF ~RestOk(r)
    THEN PanicAt(r, 116)
    ELSE IF StartsWith(Rest(r), Token(r).options[1])
    THEN IF ~SliceOk(r.string, r.string_pointer,
                     r.string_pointer + Len(Token(r).options[1]))
         THEN PanicAt(r, 118)
         ELSE EndOfArm(Push(r, Len(Token(r).options[1])))
    ELSE ReturnAt(r, 124)

\* MatcherToken::WildCard => ...
WildCardArm(r) ==
    IF ~SliceOk(r.string, r.string_pointer, r.string_pointer + 1)
    THEN PanicAt(r, 128)
    ELSE EndOfArm(Push(r, 1))

\* One turn of "for token in &self.tokens", or the return after the loop.
Turn(r) ==
    IF r.at # "loop" THEN r
    ELSE IF r.token > Len(r.self.tokens) THEN ReturnAt(r, 138)
    ELSE IF Token(r).kind = "RawText" THEN RawTextArm(r)
    ELSE IF Token(r).kind = "OneOfText" THEN OneOfTextArm(r)
    ELSE WildCardArm(r)

InLoop(kind) ==
    /\ pc = "Some"
    /\ run.at = "loop"
    /\ run.token <= Len(run.self.tokens)
    /\ Token(run).kind = kind

\* The strings match_string is called with.
Candidates == Strings(StrAlphabet, MaxStrLen)

\* matcher.match_string(&string)
Call ==
    /\ pc = "Some"
    /\ run.at \in {"idle", "return"}
    /\ \E s \in Candidates :
          /\ run' = Enter(run, s)
          /\ fresh' = Enter(Activation(compiled), s)
    /\ UNCHANGED <<shared, text, pc, scan_locals, compiled>>

MatchRawText ==
    /\ InLoop("RawText")
    /\ run' = RawTextArm(run)
    /\ fresh' = Turn(fresh)
    /\ UNCHANGED <<shared, text, pc, scan_locals, compiled>>

MatchOneOfText ==
    /\ InLoop("OneOfText")
    /\ run' = OneOfTextArm(run)
    /\ fresh' = Turn(fresh)
    /\ UNCHANGED <<shared, text, pc, scan_locals, compiled>>

MatchWildCard ==
    /\ InLoop("WildCard")
    /\ run' = WildCardArm(run)
    /\ fresh' = Turn(fresh)
    /\ UNCHANGED <<shared, text, pc, scan_locals, compiled>>

\* return matches; (line 138)
MatchEnd ==
    /\ pc = "Some"
    /\ run.at = "loop"
    /\ run.token > Len(run.self.tokens)
    /\ run' = ReturnAt(run, 138)
    /\ fresh' = Turn(fresh)
    /\ UNCHANGED <<shared, text, pc, scan_locals, compiled>>

----------------------------------------------------------------------------
Next ==
    \/ ScanDot
    \/ ScanOpen
    \/ ScanClose
    \/ ScanBar
    \/ ScanOther
    \/ ScanEnd
    \/ Call
    \/ MatchRawText
    \/ MatchOneOfText
    \/ MatchWildCard
    \/ MatchEnd

Spec == Init /\ [][Next]_vars

----------------------------------------------------------------------------
\* The pattern syntax, stated on the characters of the pattern.

\* A group is open before character k: some '(' before k has no ')' after it.
GroupOpenBefore(cs, k) ==
    \E j \in 1..(k - 1) :
        /\ cs[j] = "("
        /\ \A m \in (j + 1)..(k - 1) : cs[m] # ")"

\* A text run is active before character k: the character before k is text.
RunActiveBefore(cs, k) == k > 1 /\ cs[k - 1] \notin Delims

MalformedAt(cs, k) ==
    \/ cs[k] = "(" /\ GroupOpenBefore(cs, k)
    \/ cs[k] = ")" /\ ~GroupOpenBefore(cs, k)
    \/ cs[k] = "|" /\ (~GroupOpenBefore(cs, k) \/ ~RunActiveBefore(cs, k))

Malformed(cs) ==
    \/ \E k \in 1..Len(cs) : MalformedAt(cs, k)
    \/ GroupOpenBefore(cs, Len(cs) + 1)

NoDotInGroup(cs) == \A k \in 1..Len(cs) : cs[k] = "." => ~GroupOpenBefore(cs, k)

\* The bytes of one character.
Utf8(c) == IF c = Lead THEN <<Lead, Cont>> ELSE <<c>>

AsRawText(r) == IF r = <<>> THEN <<>> ELSE <<RawText(r)>>
AsOption(r) == IF r = <<>> THEN <<>> ELSE <<r>>

\* The tokens of a well-formed pattern, read off its characters: r is the
\* text run collected so far, opts the options of the open group.
RECURSIVE TokensOf(_, _, _, _)
TokensOf(cs, k, r, opts) ==
    IF k > Len(cs) THEN <<>>
    ELSE IF cs[k] = "." THEN AsRawText(r) \o <<WildCard>> \o TokensOf(cs, k + 1, <<>>, opts)
    ELSE IF cs[k] = "(" THEN AsRawText(r) \o TokensOf(cs, k + 1, <<>>, <<>>)
    ELSE IF cs[k] = "|" THEN TokensOf(cs, k + 1, <<>>, opts \o AsOption(r))
    ELSE IF cs[k] = ")" THEN <<OneOfText(opts \o AsOption(r))>> \o TokensOf(cs, k + 1, <<>>, <<>>)
    ELSE TokensOf(cs, k + 1, r \o Utf8(cs[k]), opts)

Finished == pc # "new"
Counter(r) == r.self.most_tokens_matched
SomeOptionMatches(r) ==
    \E k \in 1..Len(Token(r).options) : StartsWith(Rest(r), Token(r).options[k])

----------------------------------------------------------------------------
\* C1: new returns None exactly for the patterns in which a '(' is read while
\* a group is open, a ')' while none is open, a '|' while no group is open
\* or no text run is active, or a group is open at the end of the pattern;
\* for every other pattern new returns Some.
C1_NoneIffMalformed ==
    Finished => IF Malformed(Chars(text)) THEN pc = "None" ELSE pc = "Some"

\* C2: the list match_string returns is a prefix of the token sequence: it
\* is no longer than the tokens, and its k-th pair refers to the k-th token.
C2_ResultIsPrefix ==
    (pc = "Some" /\ run.at = "return") =>
        /\ Len(run.matches) <= Len(run.self.tokens)
        /\ \A k \in 1..Len(run.matches) : run.matches[k].token = k

C4_FirstMatchingOptionWins ==
    [][(InLoop("OneOfText") /\ SomeOptionMatches(run)) =>
         LET o == Token(run).options[FirstMatching(Token(run).options, Rest(run), 1)] IN
         /\ run'.at = "loop"
         /\ run'.token = run.token + 1
         /\ run'.matches = Append(run.matches, [token |-> run.token, str |-> o])
         /\ run'.string_pointer = run.string_pointer + Len(o)
         /\ Counter(run') = Counter(run) + 1]_vars

\* C5: for a well-formed pattern with no '.' inside a group, new returns
\* Some and the tokens are those of the pattern's characters in source
\* order: a WildCard per '.', a OneOfText per group holding its text runs in
\* order, a RawText per text run closed by '.' or '('.
C5_TokensInSourceOrder ==
    (Finished /\ ~Malformed(Chars(text)) /\ NoDotInGroup(Chars(text))) =>
        /\ pc = "Some"
        /\ compiled.tokens = TokensOf(Chars(text), 1, <<>>, <<>>)

\* C6: a turn of the loop of match_string panics exactly when the token is
\* a WildCard and the cursor equals the length of the candidate.
C6_PanicsOnlyAtEndOfCandidate ==
    [][(pc = "Some" /\ run.at = "loop") =>
         (run'.at = "panic" <=>
            /\ run.token <= Len(run.self.tokens)
            /\ Token(run).kind = "WildCard"
            /\ run.string_pointer = Len(run.string))]_vars

\* C7: no RawText token of a compiled Matcher has empty text and no option
\* of a OneOfText token is empty.
C7_NoEmptyText ==
    pc = "Some" =>
        \A k \in 1..Len(compiled.tokens) :
            /\ compiled.tokens[k].kind = "RawText" => compiled.tokens[k].text # <<>>
            /\ \A n \in 1..Len(compiled.tokens[k].options) :
                   compiled.tokens[k].options[n] # <<>>

C7_Witness ==
    /\ pc = "Some"
    /\ \E k \in 1..Len(compiled.tokens) : compiled.tokens[k].kind = "RawText"
    /\ \E k \in 1..Len(compiled.tokens) : Len(compiled.tokens[k].options) >= 1

C9_MatchKeepsTextAndTokens ==
    pc = "Some" =>
        /\ run.self.text = text
        /\ run.self.text = compiled.text
        /\ run.self.tokens = compiled.tokens
        /\ DOMAIN run.self = {"text", "tokens", "most_tokens_matched"}
        /\ Counter(run) \in 0..Len(compiled.tokens)

C9_Witness ==
    /\ pc = "Some"
    /\ run.at = "return"
    /\ run.entry > 0
    /\ Len(run.matches) >= 2
    /\ run.string # run.self.text

----------------------------------------------------------------------------
\* The number of RawText tokens among toks.
RawTextCount(toks) == Cardinality({k \in 1..Len(toks) : toks[k].kind = "RawText"})

\* The text runs of the pattern that a '.' or a '(' closes.
ClosedRuns(cs) ==
    Cardinality({k \in 2..Len(cs) : cs[k] \in {".", "("} /\ cs[k - 1] \notin Delims})

AllText(cs) == \A k \in 1..Len(cs) : cs[k] \notin Delims

\* C11: when the end of the pattern is reached with a text run open outside
\* a group, new returns Some and the tokens are the ones emitted before the
\* end was reached: no RawText stands for the open run (the RawText tokens
\* are as many as the runs closed by '.' or '('), and a pattern of text
\* characters only has no token.
C11_TrailingRunDropped ==
    (Finished /\ i = Len(Chars(text)) /\ in_text_block /\ ~in_or_block) =>
        /\ pc = "Some"
        /\ compiled.tokens = tokens
        /\ RawTextCount(compiled.tokens) = ClosedRuns(Chars(text))
        /\ AllText(Chars(text)) => compiled.tokens = <<>>

C11_Witness ==
    /\ pc = "Some"
    /\ in_text_block
    /\ Len(Chars(text)) - text_start >= 2
    /\ RawTextCount(compiled.tokens) >= 1

\* The bytes of characters from..to of cs.
RECURSIVE BytesOf(_, _, _)
BytesOf(cs, from, to) ==
    IF from > to THEN <<>> ELSE Utf8(cs[from]) \o BytesOf(cs, from + 1, to)

\* C12: a '.' read while a group is open is not rejected and does not close
\* the group: the pending text run, if any, is emitted as a RawText and not
\* added to the options, a WildCard is emitted at once, and the group stays
\* open with its options as they were, so that its OneOfText is emitted
\* later, after that WildCard.
C12_DotInsideGroup ==
    [][(Scanning(".") /\ in_or_block) =>
         /\ pc' = "new"
         /\ in_or_block'
         /\ or_options' = or_options
         /\ tokens' = tokens
                \o (IF in_text_block
                    THEN <<RawText(BytesOf(Chars(text), text_start + 1, i))>>
                    ELSE <<>>)
                \o <<WildCard>>]_vars

\* The matched substrings of ms, joined in list order.
RECURSIVE Joined(_, _)
Joined(ms, n) == IF n = 0 THEN <<>> ELSE Joined(ms, n - 1) \o ms[n].str

\* The cursor when pair k of ms was recorded: the bytes matched before it.
CursorAt(ms, k) == Len(Joined(ms, k - 1))

Returned == pc = "Some" /\ run.at = "return"

\* C13: every pair of a returned list agrees with its token: for a RawText
\* the substring is the token's text, for a OneOfText one of its options,
\* for a WildCard one whole character; and the substring is the slice of the
\* candidate that starts at the cursor the token was processed at.
C13_PairsAgreeWithTokens ==
    Returned =>
        \A k \in 1..Len(run.matches) :
            LET m == run.matches[k]
                t == run.self.tokens[m.token]
                c == CursorAt(run.matches, k)
            IN  /\ c + Len(m.str) <= Len(run.string)
                /\ m.str = Slice(run.string, c, c + Len(m.str))
                /\ t.kind = "RawText" => m.str = t.text
                /\ t.kind = "OneOfText" =>
                       \E n \in 1..Len(t.options) : m.str = t.options[n]
                /\ t.kind = "WildCard" => m.str # <<>> /\ m.str = Utf8(m.str[1])

C13_Witness ==
    /\ Returned
    /\ Len(run.matches) >= 2
    /\ run.self.tokens[run.matches[1].token].kind # "WildCard"
    /\ run.self.tokens[run.matches[2].token].kind = "WildCard"
    /\ run.matches[1].str # run.matches[2].str

\* C14: the substrings of a returned list are consecutive slices of the
\* candidate from offset 0: joined in list order they are the prefix of the
\* candidate that ends at the final cursor, which is the sum of their
\* lengths.
C14_SubstringsTileCandidatePrefix ==
    Returned =>
        /\ run.string_pointer = Len(Joined(run.matches, Len(run.matches)))
        /\ run.string_pointer <= Len(run.string)
        /\ Joined(run.matches, Len(run.matches)) = Slice(run.string, 0, run.string_pointer)

C14_Witness ==
    /\ Returned
    /\ Len(run.matches) >= 2
    /\ run.matches[1].str # run.matches[2].str
    /\ run.string # run.self.text
    /\ run.line = 138

EmptyOneOfText(t) == t.kind = "OneOfText" /\ t.options = <<>>

\* C15: new can emit a OneOfText with no option; a turn of the loop of
\* match_string on such a token records nothing, leaves the cursor and the
\* counter as they are and goes on with the next token.
C15_EmptyOneOfTextIsPassedOver ==
    [][(InLoop("OneOfText") /\ EmptyOneOfText(Token(run))) =>
         run' = [run EXCEPT !.token = @ + 1]]_vars

C15_Witness ==
    /\ pc = "Some"
    /\ run.at \in {"loop", "return"}
    /\ \E k \in 1..Len(run.self.tokens) :
          /\ EmptyOneOfText(run.self.tokens[k])
          /\ \E n \in 1..Len(run.matches) : run.matches[n].token > k

\* C16: the cursor of match_string stays within 0..len of the candidate in
\* every state of a call, so the guard of line 133 is never true and no call
\* returns at line 134.
C16_CursorWithinCandidate ==
    pc = "Some" =>
        /\ run.string_pointer \in 0..Len(run.string)
        /\ run.line # 134

C16_Witness ==
    /\ pc = "Some"
    /\ run.at = "loop"
    /\ run.token <= Len(run.self.tokens)
    /\ run.matches # <<>>
    /\ run.string_pointer = Len(run.string)

----------------------------------------------------------------------------
\* Two callers of match_string on one Matcher.  Each caller runs the code of
\* match_string on its own locals; self.most_tokens_matched is the one
\* counter of the Matcher, and the reset of line 98 and each "+= 1" of
\* lines 111, 119, 129 is a step of its own on it.  With exclusive, a call
\* holds the Matcher from its entry to its return, as &mut self requires.

InitShared ==
    /\ text \in Strings(PatAlphabet, MaxSharedPatLen)
    /\ pc = "new"
    /\ i = 0
    /\ tokens = <<>>
    /\ in_text_block = FALSE
    /\ text_start = 0
    /\ in_or_block = FALSE
    /\ or_options = <<>>
    /\ compiled = NoMatcher
    /\ run = Activation(NoMatcher)
    /\ fresh = Activation(NoMatcher)
    /\ exclusive \in BOOLEAN
    /\ owner = 0
    /\ most_tokens_matched = 0
    /\ threads = [t \in Threads |-> Caller]

SharedCandidates == Strings(StrAlphabet, MaxSharedStrLen)

\* The activation a reading self through the shared Matcher.
OnShared(a) == [a EXCEPT !.self.most_tokens_matched = most_tokens_matched]

Left(a) == a.at \in {"return", "panic"}

\* The call begins: the argument is bound, the Matcher is taken.
ThreadCall(t) ==
    /\ pc = "Some"
    /\ threads[t].a.at = "idle"
    /\ exclusive => owner = 0
    /\ owner' = IF exclusive THEN t ELSE owner
    /\ \E s \in SharedCandidates :
          threads' = [threads EXCEPT
                         ![t].a = [Activation(compiled) EXCEPT !.string = s,
                                                                !.at = "entered"]]
    /\ UNCHANGED <<text, pc, scan_locals, compiled, run, fresh,
                   exclusive, most_tokens_matched>>

\* self.most_tokens_matched = 0; and the locals (lines 98-101)
ThreadReset(t) ==
    /\ pc = "Some"
    /\ threads[t].a.at = "entered"
    /\ LET r == Enter(OnShared(threads[t].a), threads[t].a.string) IN
          /\ most_tokens_matched' = Counter(r)
          /\ threads' = [threads EXCEPT ![t].a = r]
    /\ UNCHANGED <<text, pc, scan_locals, compiled, run, fresh, exclusive, owner>>

\* One turn of the loop up to, and without, its "+= 1"; or the return.
ThreadTurn(t) ==
    /\ pc = "Some"
    /\ threads[t].a.at = "loop"
    /\ ~threads[t].pend
    /\ LET r == Turn(OnShared(threads[t].a)) IN
          /\ threads' = [threads EXCEPT
                            ![t].a = r,
                            ![t].pend = Counter(r) # most_tokens_matched,
                            ![t].seen = IF Left(r) THEN most_tokens_matched ELSE @]
          /\ owner' = IF exclusive /\ Left(r) THEN 0 ELSE owner
    /\ UNCHANGED <<text, pc, scan_locals, compiled, run, fresh,
                   exclusive, most_tokens_matched>>

\* self.most_tokens_matched += 1
ThreadIncrement(t) ==
    /\ pc = "Some"
    /\ threads[t].pend
    /\ most_tokens_matched' = most_tokens_matched + 1
    /\ threads' = [threads EXCEPT ![t].pend = FALSE]
    /\ UNCHANGED <<text, pc, scan_locals, compiled, run, fresh, exclusive, owner>>

NextShared ==
    \/ ScanDot
    \/ ScanOpen
    \/ ScanClose
    \/ ScanBar
    \/ ScanOther
    \/ ScanEnd
    \/ \E t \in Threads : ThreadCall(t)
    \/ \E t \in Threads : ThreadReset(t)
    \/ \E t \in Threads : ThreadTurn(t)
    \/ \E t \in Threads : ThreadIncrement(t)

SpecShared == InitShared /\ [][NextShared]_vars

====
